---- MODULE Spec2Model ----
(***************************************************************************)
(* Model of grafana's pkg/api HTTPServer (http_server.go): the Run         *)
(* lifecycle (transport configuration, listener acquisition, the shutdown  *)
(* watcher goroutine, Serve / ServeTLS) and the middleware chain composed  *)
(* by addMiddlewaresAndStaticRoutes with its liveness interceptors.        *)
(*                                                                         *)
(* Spec      the lifecycle of one Run under every transport configuration. *)
(* FairSpec  Spec with the fairness the Go scheduler gives goroutines.     *)
(* PipeSpec  the composed handler chain applied to single requests under   *)
(*           every pipeline configuration.                                 *)
(***************************************************************************)
EXTENDS Integers, Sequences, FiniteSets, TLC

VARIABLES
    Cfg,          \* hs.Cfg: the configuration, read-only after construction
    Listener,     \* hs.Listener: the listener given through ServerOptions
    middlewares,  \* hs.middlewares
    handlers,     \* hs.web: the handler chain of the mux
    mwAtRun,      \* hs.middlewares as it was when Run was called
    applied,      \* the calls applyRoutes has made, in order
    ctxDone,      \* the context passed to Run is cancelled
    cancelCalls,  \* how many times the context's cancel function was called
    runPc,        \* where Run is
    runResult,    \* what Run returned
    listener,     \* Run's local variable listener
    httpSrv,      \* hs.httpSrv: the http.Server
    watcher,      \* the shutdown goroutine started by Run
    shutdownCalls,\* calls of hs.httpSrv.Shutdown
    bound,        \* sockets bound by getListener during this Run
    lnOpen,       \* the listener (supplied or bound) is open
    closeCalls,   \* calls of Close that reached the underlying listener
    chmodCalls,   \* calls of os.Chmod on the socket path
    socketMode,   \* the permission bits of the socket file, 0 while there is none
    servedOn,     \* the listener handed to Serve / ServeTLS
    serveCall,    \* the serve method Run called, with its certificate and key arguments
    serveErr,     \* the error Serve / ServeTLS returned
    returns,      \* how many times Run returned
    conns,        \* connections of the server and the request each is handling
    req,          \* PipeSpec: the request being handled (NoReq when none)
    resp,         \* PipeSpec: its response
    observed      \* PipeSpec: the stages of the chain that ran for it, in order

lifecycleVars == <<ctxDone, cancelCalls, runResult, listener, httpSrv, watcher,
                   shutdownCalls, bound, lnOpen, closeCalls, chmodCalls, socketMode, servedOn, serveCall, serveErr,
                   returns, conns>>
requestVars == <<req, resp, observed>>
composeVars == <<mwAtRun, applied>>
vars == <<Cfg, Listener, middlewares, handlers, composeVars, runPc, lifecycleVars,
          requestVars>>

(***************************************************************************)
(* Bounds                                                                  *)
(***************************************************************************)
MaxConns == 2
MaxCancels == 2
MaxMiddlewares == 2

(***************************************************************************)
(* Configuration values                                                    *)
(***************************************************************************)
HTTPScheme == "http"
HTTPSScheme == "https"
HTTP2Scheme == "h2"
SocketScheme == "socket"
UnknownScheme == "gopher"
Schemes == {HTTPScheme, HTTPSScheme, HTTP2Scheme, SocketScheme, UnknownScheme}
RecognisedSchemes == {HTTPScheme, HTTPSScheme, HTTP2Scheme, SocketScheme}
TLSSchemes == {HTTPSScheme, HTTP2Scheme}

Nil == "nil"

\* The files on disk; a path outside this set does not exist.
ExistingFiles == {"cert.pem", "key.pem"}
CertPaths == {"", "absent.pem", "cert.pem"}
KeyPaths == {"", "absent.key", "key.pem"}

\* os.Stat(path) followed by os.IsNotExist(err)
IsNotExist(path) == path \notin ExistingFiles

ExtraMiddlewares == {"mwA", "mwB"}

DefaultPipelineCfg ==
    [EnableGzip |-> FALSE, ImageUploadProvider |-> "", EnforceDomain |-> FALSE,
     MetricsEndpointEnabled |-> TRUE, MetricsEndpointBasicAuthUsername |-> "",
     MetricsEndpointBasicAuthPassword |-> "", AnonymousHideVersion |-> FALSE,
     Env |-> "production"]

PipelineCfgs ==
    [EnableGzip : BOOLEAN, ImageUploadProvider : {"", "local"}, EnforceDomain : BOOLEAN,
     MetricsEndpointEnabled : BOOLEAN, MetricsEndpointBasicAuthUsername : {"", "admin"},
     MetricsEndpointBasicAuthPassword : {"", "secret"}, AnonymousHideVersion : BOOLEAN,
     Env : {"production", "development"}]

TransportCfgs == [Protocol : Schemes, CertFile : CertPaths, KeyFile : KeyPaths]

MkCfg(t, p) ==
    [Protocol |-> t.Protocol, CertFile |-> t.CertFile, KeyFile |-> t.KeyFile,
     EnableGzip |-> p.EnableGzip, ImageUploadProvider |-> p.ImageUploadProvider,
     EnforceDomain |-> p.EnforceDomain,
     MetricsEndpointEnabled |-> p.MetricsEndpointEnabled,
     MetricsEndpointBasicAuthUsername |-> p.MetricsEndpointBasicAuthUsername,
     MetricsEndpointBasicAuthPassword |-> p.MetricsEndpointBasicAuthPassword,
     AnonymousHideVersion |-> p.AnonymousHideVersion, Env |-> p.Env]

NoReq == [method |-> "", path |-> "", cred |-> "", db |-> "", panicAt |-> ""]
NoResp == [status |-> 0, body |-> "", json |-> {}, cache |-> ""]

NoServeCall == [fn |-> "none", certFile |-> "", keyFile |-> ""]

(***************************************************************************)
(* The state after ProvideHTTPServer                                       *)
(***************************************************************************)
ProvideHTTPServer(cfg, optsListener) ==
    /\ Cfg = cfg
    /\ Listener = optsListener
    /\ middlewares = <<>>
    /\ handlers = <<>>
    /\ mwAtRun = <<>>
    /\ applied = <<>>
    /\ ctxDone = FALSE
    /\ cancelCalls = 0
    /\ runPc = "unstarted"
    /\ runResult = "none"
    /\ listener = Nil
    /\ httpSrv = [created |-> FALSE, TLSConfig |-> Nil, inShutdown |-> FALSE,
                  tracked |-> FALSE]
    /\ watcher = "none"
    /\ shutdownCalls = 0
    /\ bound = {}
    /\ lnOpen = (optsListener # Nil)
    /\ closeCalls = 0
    /\ chmodCalls = 0
    /\ socketMode = 0
    /\ servedOn = Nil
    /\ serveCall = NoServeCall
    /\ serveErr = "none"
    /\ returns = 0
    /\ conns = [c \in 1..MaxConns |-> "idle"]
    /\ req = NoReq
    /\ resp = NoResp
    /\ observed = <<>>

Init ==
    \E t \in TransportCfgs, l \in {Nil, "supplied"} :
        ProvideHTTPServer(MkCfg(t, DefaultPipelineCfg), l)

(***************************************************************************)
(* Transport configuration                                                 *)
(***************************************************************************)
\* configureHttps without its two tests for an empty path.
configureHttpsStatOnly(cfg) ==
    IF IsNotExist(cfg.CertFile) THEN "cannot find SSL cert_file"
    ELSE IF IsNotExist(cfg.KeyFile) THEN "cannot find SSL key_file"
    ELSE Nil

configureHttps(cfg) ==
    IF cfg.CertFile = "" THEN "cert_file cannot be empty when using HTTPS"
    ELSE IF cfg.KeyFile = "" THEN "cert_key cannot be empty when using HTTPS"
    ELSE IF IsNotExist(cfg.CertFile) THEN "cannot find SSL cert_file"
    ELSE IF IsNotExist(cfg.KeyFile) THEN "cannot find SSL key_file"
    ELSE Nil

\* configureHttp2 without its tests of the key file.
configureHttp2CertOnly(cfg) ==
    IF cfg.CertFile = "" THEN "cert_file cannot be empty when using HTTP2"
    ELSE IF IsNotExist(cfg.CertFile) THEN "cannot find SSL cert_file"
    ELSE Nil

configureHttp2(cfg) ==
    IF cfg.CertFile = "" THEN "cert_file cannot be empty when using HTTP2"
    ELSE IF cfg.KeyFile = "" THEN "cert_key cannot be empty when using HTTP2"
    ELSE IF IsNotExist(cfg.CertFile) THEN "cannot find SSL cert_file"
    ELSE IF IsNotExist(cfg.KeyFile) THEN "cannot find SSL key_file"
    ELSE Nil

\* The first switch of Run: the error of the configure call of the protocol.
\* The configure switch of Run calling neither configureHttp2 nor configureHttps.
configureTransportSkips(cfg) == Nil

configureTransport(cfg) ==
    CASE cfg.Protocol = HTTP2Scheme -> configureHttp2(cfg)
      [] cfg.Protocol = HTTPSScheme -> configureHttps(cfg)
      [] OTHER -> Nil

\* hs.httpSrv.TLSConfig as the configure call leaves it.
tlsCfg(cfg) ==
    CASE cfg.Protocol = HTTP2Scheme -> "TLS12+h2,http/1.1"
      [] cfg.Protocol = HTTPSScheme -> "TLS12"
      [] OTHER -> Nil

ConfigurationErrors ==
    {"cert_file cannot be empty when using HTTPS", "cert_key cannot be empty when using HTTPS",
     "cert_file cannot be empty when using HTTP2", "cert_key cannot be empty when using HTTP2"}
FileNotFoundErrors == {"cannot find SSL cert_file", "cannot find SSL key_file"}
ListenerErrors ==
    {"failed to open listener on address", "failed to open listener for socket",
     "failed to change socket permissions"}

(***************************************************************************)
(* getListener. bindOK and chmodOK are the outcomes of net.Listen /        *)
(* net.ListenUnix and of os.Chmod. The result: the listener and error      *)
(* returned, the socket bound (if any) and whether Chmod was called.       *)
(***************************************************************************)
\* os.Chmod(hs.Cfg.SocketPath, 0660), in decimal.
SocketPerm == 432
\* The bits net.ListenUnix creates the socket file with: 0777 under the usual
\* umask 022, in decimal.
UmaskSocketMode == 493

\* The group-write bit (0020).
GroupWritable(mode) == (mode \div 16) % 2 = 1

\* The switch of getListener without the test of Chmod's error.
newListenerIgnoreChmodErr(cfg, bindOK, chmodOK) ==
    CASE cfg.Protocol \in {HTTPScheme, HTTPSScheme, HTTP2Scheme} ->
           IF ~bindOK
           THEN [listener |-> Nil, err |-> "failed to open listener on address",
                 bound |-> {}, chmod |-> 0, mode |-> 0]
           ELSE [listener |-> "tcp", err |-> Nil, bound |-> {"tcp"}, chmod |-> 0, mode |-> 0]
      [] cfg.Protocol = SocketScheme ->
           IF ~bindOK
           THEN [listener |-> Nil, err |-> "failed to open listener for socket",
                 bound |-> {}, chmod |-> 0, mode |-> 0]
           ELSE [listener |-> "unix", err |-> Nil, bound |-> {"unix"}, chmod |-> 1,
                 mode |-> IF chmodOK THEN SocketPerm ELSE UmaskSocketMode]
      [] OTHER ->
           [listener |-> Nil, err |-> "invalid protocol", bound |-> {}, chmod |-> 0,
            mode |-> 0]

\* The switch of getListener: a listener bound for the protocol.
newListener(cfg, bindOK, chmodOK) ==
    CASE cfg.Protocol \in {HTTPScheme, HTTPSScheme, HTTP2Scheme} ->
           IF ~bindOK
           THEN [listener |-> Nil, err |-> "failed to open listener on address",
                 bound |-> {}, chmod |-> 0, mode |-> 0]
           ELSE [listener |-> "tcp", err |-> Nil, bound |-> {"tcp"}, chmod |-> 0, mode |-> 0]
      [] cfg.Protocol = SocketScheme ->
           IF ~bindOK
           THEN [listener |-> Nil, err |-> "failed to open listener for socket",
                 bound |-> {}, chmod |-> 0, mode |-> 0]
           ELSE IF ~chmodOK
           THEN [listener |-> Nil, err |-> "failed to change socket permissions",
                 bound |-> {"unix"}, chmod |-> 1, mode |-> UmaskSocketMode]
           ELSE [listener |-> "unix", err |-> Nil, bound |-> {"unix"}, chmod |-> 1,
                 mode |-> SocketPerm]
      [] OTHER ->
           [listener |-> Nil, err |-> "invalid protocol", bound |-> {}, chmod |-> 0,
            mode |-> 0]

\* getListener without its test of hs.Listener.
getListenerAlwaysNew(cfg, hsListener, bindOK, chmodOK) ==
    newListener(cfg, bindOK, chmodOK)

getListener(cfg, hsListener, bindOK, chmodOK) ==
    IF hsListener # Nil
    THEN [listener |-> hsListener, err |-> Nil, bound |-> {}, chmod |-> 0, mode |-> 0]
    ELSE newListener(cfg, bindOK, chmodOK)

\* The fixed pipeline with the host-header validation in front of the context
\* handler.
fixedPipelineHostFirst(cfg) ==
    <<"RequestTracing", "Logger">>
    \o (IF cfg.EnableGzip THEN <<"Gziper">> ELSE <<>>)
    \o <<"Recovery">>
    \o <<"Static:public/build", "Static:public", "Static:robots.txt">>
    \o (IF cfg.ImageUploadProvider = "local" THEN <<"Static:/public/img/attachments">> ELSE <<>>)
    \o <<"AddDefaultResponseHeaders", "Renderer">>
    \o <<"healthzHandler", "apiHealthHandler", "metricsEndpoint">>
    \o (IF cfg.EnforceDomain THEN <<"ValidateHostHeader">> ELSE <<>>)
    \o <<"ContextHandler", "OrgRedirect", "LoadPermissionsMiddleware">>
    \o <<"HandleNoCacheHeader", "AddCSPHeader">>

\* The fixed pipeline with the recovery stage behind the static mappings.
fixedPipelineLateRecovery(cfg) ==
    <<"RequestTracing", "Logger">>
    \o (IF cfg.EnableGzip THEN <<"Gziper">> ELSE <<>>)
    \o <<"Static:public/build", "Static:public", "Static:robots.txt">>
    \o (IF cfg.ImageUploadProvider = "local" THEN <<"Static:/public/img/attachments">> ELSE <<>>)
    \o <<"Recovery">>
    \o <<"AddDefaultResponseHeaders", "Renderer">>
    \o <<"healthzHandler", "apiHealthHandler", "metricsEndpoint">>
    \o <<"ContextHandler", "OrgRedirect", "LoadPermissionsMiddleware">>
    \o (IF cfg.EnforceDomain THEN <<"ValidateHostHeader">> ELSE <<>>)
    \o <<"HandleNoCacheHeader", "AddCSPHeader">>

(***************************************************************************)
(* The handler chain                                                       *)
(***************************************************************************)
\* The m.Use and mapStatic calls of addMiddlewaresAndStaticRoutes, up to its loop.
fixedPipeline(cfg) ==
    <<"RequestTracing", "Logger">>
    \o (IF cfg.EnableGzip THEN <<"Gziper">> ELSE <<>>)
    \o <<"Recovery">>
    \o <<"Static:public/build", "Static:public", "Static:robots.txt">>
    \o (IF cfg.ImageUploadProvider = "local"
        THEN <<"Static:/public/img/attachments">> ELSE <<>>)
    \o <<"AddDefaultResponseHeaders", "Renderer">>
    \o <<"healthzHandler", "apiHealthHandler", "metricsEndpoint">>
    \o <<"ContextHandler", "OrgRedirect", "LoadPermissionsMiddleware">>
    \o (IF cfg.EnforceDomain THEN <<"ValidateHostHeader">> ELSE <<>>)
    \o <<"HandleNoCacheHeader", "AddCSPHeader">>

\* The extra middleware put in front of the chain instead of behind it.
useMiddlewaresFirst(hs, mws) == mws \o hs

\* for _, mw := range hs.middlewares { m.Use(mw) }
useMiddlewares(hs, mws) == hs \o mws

\* addMiddlewaresAndStaticRoutes when nothing else runs between its calls.
addMiddlewaresAndStaticRoutes(cfg, mws) == useMiddlewares(fixedPipeline(cfg), mws)

\* applyRoutes registering the not-found handler first.
applyRoutesNotFoundFirst ==
    <<"NotFound(ReqSignedIn, NotFoundHandler)", "addMiddlewaresAndStaticRoutes",
      "RouteRegister.Register(namedMiddlewares)", "initAppPluginRoutes">>

\* The calls of applyRoutes, in order.
applyRoutes ==
    <<"addMiddlewaresAndStaticRoutes", "RouteRegister.Register(namedMiddlewares)",
      "initAppPluginRoutes", "NotFound(ReqSignedIn, NotFoundHandler)">>

AddMiddleware(mw) ==
    /\ Len(middlewares) < MaxMiddlewares
    /\ middlewares' = Append(middlewares, mw)
    /\ UNCHANGED <<Cfg, Listener, handlers, composeVars, runPc, lifecycleVars,
                   requestVars>>

(***************************************************************************)
(* Run                                                                     *)
(***************************************************************************)
\* Run is called: hs.context is set, applyRoutes calls
\* addMiddlewaresAndStaticRoutes, which registers its own stages.
RunStart ==
    /\ runPc = "unstarted"
    /\ mwAtRun' = middlewares
    /\ applied' = SubSeq(applyRoutes, 1, 1)
    /\ handlers' = fixedPipeline(Cfg)
    /\ runPc' = "composing"
    /\ UNCHANGED <<Cfg, Listener, middlewares, lifecycleVars, requestVars>>

\* The loop over hs.middlewares, the rest of applyRoutes and the creation of
\* hs.httpSrv. AddMiddleware takes no lock: a call from another goroutine may
\* come before the loop reads hs.middlewares.
RunCompose ==
    /\ runPc = "composing"
    /\ handlers' = useMiddlewares(handlers, middlewares)
    /\ applied' = applyRoutes
    /\ httpSrv' = [httpSrv EXCEPT !.created = TRUE]
    /\ runPc' = "configure"
    /\ UNCHANGED <<Cfg, Listener, middlewares, mwAtRun, ctxDone, cancelCalls, runResult,
                   listener, watcher, shutdownCalls, bound, lnOpen, closeCalls,
                   chmodCalls, socketMode, servedOn, serveCall, serveErr, returns, conns, requestVars>>

\* The switch on the protocol that configures TLS.
RunConfigure ==
    /\ runPc = "configure"
    /\ LET err == configureTransport(Cfg) IN
         IF err # Nil
         THEN /\ runPc' = "returned"
              /\ runResult' = err
              /\ returns' = returns + 1
              /\ UNCHANGED httpSrv
         ELSE /\ runPc' = "getListener"
              /\ httpSrv' = [httpSrv EXCEPT !.TLSConfig = tlsCfg(Cfg)]
              /\ UNCHANGED <<runResult, returns>>
    /\ UNCHANGED <<Cfg, Listener, middlewares, handlers, composeVars, ctxDone, cancelCalls, listener,
                   watcher, shutdownCalls, bound, lnOpen, closeCalls, chmodCalls, socketMode,
                   servedOn, serveCall, serveErr, conns, requestVars>>

\* listener, err := hs.getListener()
RunGetListener ==
    /\ runPc = "getListener"
    /\ \E bindOK \in BOOLEAN, chmodOK \in BOOLEAN :
         LET r == getListener(Cfg, Listener, bindOK, chmodOK) IN
           /\ bound' = bound \cup r.bound
           /\ chmodCalls' = chmodCalls + r.chmod
           /\ socketMode' = r.mode
           /\ lnOpen' = (lnOpen \/ r.bound # {})
           /\ listener' = r.listener
           /\ IF r.err # Nil
              THEN /\ runPc' = "returned"
                   /\ runResult' = r.err
                   /\ returns' = returns + 1
              ELSE /\ runPc' = "startWatcher"
                   /\ UNCHANGED <<runResult, returns>>
    /\ UNCHANGED <<Cfg, Listener, middlewares, handlers, composeVars, ctxDone, cancelCalls, httpSrv,
                   watcher, shutdownCalls, closeCalls, servedOn, serveCall, serveErr, conns,
                   requestVars>>

\* wg.Add(1); go func() { ... }()
RunStartWatcher ==
    /\ runPc = "startWatcher"
    /\ watcher' = "waiting"
    /\ runPc' = "serve"
    /\ UNCHANGED <<Cfg, Listener, middlewares, handlers, composeVars, ctxDone, cancelCalls, runResult,
                   listener, httpSrv, shutdownCalls, bound, lnOpen, closeCalls,
                   chmodCalls, socketMode, servedOn, serveCall, serveErr, returns, conns, requestVars>>

\* What Run returns for the error Serve / ServeTLS returned. Serve and ServeTLS
\* always return a non-nil error, so the wg.Wait() after the switch is not reached.
serveResultAlwaysNil(err) == Nil

serveResult(err) == IF err = "ErrServerClosed" THEN Nil ELSE err

\* defer l.Close() of Serve: the listener is wrapped in a onceCloseListener, so
\* the underlying Close is called only if Shutdown has not closed it already.
ServeReturns(err) ==
    /\ serveErr' = err
    /\ lnOpen' = FALSE
    /\ closeCalls' = IF lnOpen THEN closeCalls + 1 ELSE closeCalls
    /\ httpSrv' = [httpSrv EXCEPT !.tracked = FALSE]
    /\ runPc' = "returned"
    /\ runResult' = serveResult(err)
    /\ returns' = returns + 1

\* The second switch of Run, up to the point where Serve is accepting.
\* The serve switch of Run calling Serve whatever the protocol.
serveSwitchPlainOnly(cfg) == [fn |-> "Serve", certFile |-> "", keyFile |-> ""]

\* The serve switch of Run: the method called and its file arguments.
serveSwitch(cfg) ==
    IF cfg.Protocol \in {HTTPScheme, SocketScheme}
    THEN [fn |-> "Serve", certFile |-> "", keyFile |-> ""]
    ELSE [fn |-> "ServeTLS", certFile |-> cfg.CertFile, keyFile |-> cfg.KeyFile]

\* A serve call that starts accepting although the server was shut down before.
RunServeIgnoresShutdown ==
    /\ runPc = "serve"
    /\ Cfg.Protocol \in RecognisedSchemes
    /\ servedOn' = listener
    /\ serveCall' = serveSwitch(Cfg)
    /\ httpSrv' = [httpSrv EXCEPT !.tracked = TRUE]
    /\ runPc' = "serving"
    /\ UNCHANGED <<serveErr, lnOpen, closeCalls, runResult, returns>>
    /\ UNCHANGED <<Cfg, Listener, middlewares, handlers, composeVars, ctxDone, cancelCalls, listener,
                   watcher, shutdownCalls, bound, chmodCalls, socketMode, conns, requestVars>>

RunServe ==
    /\ runPc = "serve"
    /\ Cfg.Protocol \in RecognisedSchemes
    /\ servedOn' = listener
    /\ serveCall' = serveSwitch(Cfg)
    /\ IF httpSrv.inShutdown
       THEN ServeReturns("ErrServerClosed")
       ELSE /\ httpSrv' = [httpSrv EXCEPT !.tracked = TRUE]
            /\ runPc' = "serving"
            /\ UNCHANGED <<serveErr, lnOpen, closeCalls, runResult, returns>>
    /\ UNCHANGED <<Cfg, Listener, middlewares, handlers, composeVars, ctxDone, cancelCalls, listener,
                   watcher, shutdownCalls, bound, chmodCalls, socketMode, conns, requestVars>>

\* ServeTLS fails to load the key pair (the files exist but do not parse): it
\* returns before Serve is called and leaves the listener as it is.
RunServeTLSLoadFails ==
    /\ runPc = "serve"
    /\ Cfg.Protocol \in TLSSchemes
    /\ servedOn' = listener
    /\ serveCall' = serveSwitch(Cfg)
    /\ serveErr' = "tls: failed to load key pair"
    /\ runPc' = "returned"
    /\ runResult' = serveResult("tls: failed to load key pair")
    /\ returns' = returns + 1
    /\ UNCHANGED <<Cfg, Listener, middlewares, handlers, composeVars, ctxDone, cancelCalls, listener,
                   httpSrv, watcher, shutdownCalls, bound, lnOpen, closeCalls,
                   chmodCalls, socketMode, conns, requestVars>>

\* default: panic(fmt.Sprintf("Unhandled protocol %q", hs.Cfg.Protocol))
RunPanic ==
    /\ runPc = "serve"
    /\ Cfg.Protocol \notin RecognisedSchemes
    /\ runPc' = "panicked"
    /\ UNCHANGED <<Cfg, Listener, middlewares, handlers, composeVars, lifecycleVars, requestVars>>

\* Accept fails while the server is not shutting down: Serve returns the error.
ServeAcceptError ==
    /\ runPc = "serving"
    /\ ~httpSrv.inShutdown
    /\ ServeReturns("accept error")
    /\ UNCHANGED <<Cfg, Listener, middlewares, handlers, composeVars, ctxDone, cancelCalls, listener,
                   watcher, shutdownCalls, bound, chmodCalls, socketMode, servedOn, serveCall, conns,
                   requestVars>>

\* Shutdown closed the listener: Serve returns ErrServerClosed at once, without
\* waiting for the connections.
ServeClosed ==
    /\ runPc = "serving"
    /\ httpSrv.inShutdown
    /\ ServeReturns("ErrServerClosed")
    /\ UNCHANGED <<Cfg, Listener, middlewares, handlers, composeVars, ctxDone, cancelCalls, listener,
                   watcher, shutdownCalls, bound, chmodCalls, socketMode, servedOn, serveCall, conns,
                   requestVars>>

(***************************************************************************)
(* Connections. A request either completes ("active") or never does        *)
(* ("stuck": a handler that blocks forever).                               *)
(***************************************************************************)
Accept(c) ==
    /\ runPc = "serving"
    /\ ~httpSrv.inShutdown
    /\ lnOpen
    /\ conns[c] = "idle"
    /\ \E k \in {"active", "stuck"} : conns' = [conns EXCEPT ![c] = k]
    /\ UNCHANGED <<Cfg, Listener, middlewares, handlers, composeVars, runPc, ctxDone, cancelCalls,
                   runResult, listener, httpSrv, watcher, shutdownCalls, bound, lnOpen,
                   closeCalls, chmodCalls, socketMode, servedOn, serveCall, serveErr, returns, requestVars>>

Finish(c) ==
    /\ conns[c] = "active"
    /\ conns' = [conns EXCEPT ![c] = "idle"]
    /\ UNCHANGED <<Cfg, Listener, middlewares, handlers, composeVars, runPc, ctxDone, cancelCalls,
                   runResult, listener, httpSrv, watcher, shutdownCalls, bound, lnOpen,
                   closeCalls, chmodCalls, socketMode, servedOn, serveCall, serveErr, returns, requestVars>>

(***************************************************************************)
(* The context and the shutdown watcher                                    *)
(***************************************************************************)
Cancel ==
    /\ cancelCalls < MaxCancels
    /\ cancelCalls' = cancelCalls + 1
    /\ ctxDone' = TRUE
    /\ UNCHANGED <<Cfg, Listener, middlewares, handlers, composeVars, runPc, runResult, listener,
                   httpSrv, watcher, shutdownCalls, bound, lnOpen, closeCalls,
                   chmodCalls, socketMode, servedOn, serveCall, serveErr, returns, conns, requestVars>>

\* A goroutine that loops back to <-ctx.Done() instead of ending.
watcherLoops == "waiting"

\* What the goroutine does once hs.httpSrv.Shutdown has returned.
watcherAfterShutdown == "done"

\* A goroutine that does not wait for the context.
ctxObservedAlways == TRUE

\* A goroutine that waits on a context that is never cancelled.
ctxObservedNever == FALSE

\* <-ctx.Done() has something to receive.
ctxObserved == ctxDone

\* <-ctx.Done() returns and hs.httpSrv.Shutdown(context.Background()) begins:
\* the server is marked as shutting down and its tracked listener is closed.
WatcherShutdown ==
    /\ watcher = "waiting"
    /\ ctxObserved
    /\ watcher' = "shutdown"
    /\ shutdownCalls' = shutdownCalls + 1
    /\ httpSrv' = [httpSrv EXCEPT !.inShutdown = TRUE]
    /\ lnOpen' = IF httpSrv.tracked THEN FALSE ELSE lnOpen
    /\ closeCalls' = IF httpSrv.tracked /\ lnOpen THEN closeCalls + 1 ELSE closeCalls
    /\ UNCHANGED <<Cfg, Listener, middlewares, handlers, composeVars, runPc, ctxDone, cancelCalls,
                   runResult, listener, bound, chmodCalls, socketMode, servedOn, serveCall, serveErr, returns,
                   conns, requestVars>>

\* Shutdown was given context.Background(): it returns only when every
\* connection is idle.
shutdownMayReturn == \A c \in 1..MaxConns : conns[c] = "idle"

WatcherDone ==
    /\ watcher = "shutdown"
    /\ shutdownMayReturn
    /\ watcher' = watcherAfterShutdown
    /\ UNCHANGED <<Cfg, Listener, middlewares, handlers, composeVars, runPc, ctxDone, cancelCalls,
                   runResult, listener, httpSrv, shutdownCalls, bound, lnOpen,
                   closeCalls, chmodCalls, socketMode, servedOn, serveCall, serveErr, returns, conns,
                   requestVars>>


(***************************************************************************)
(* Requests and the stages of the chain                                    *)
(***************************************************************************)
Methods == {"GET", "HEAD", "POST"}
Paths ==
    {"/healthz", "/api/health", "/metrics", "/public/build/app.js", "/public/img/logo.png",
     "/robots.txt", "/api/dashboards"}
\* The stages in which the handling of a request may panic; "route" is the
\* handler of the matched route, behind the whole chain.
PanicPoints == {"Static:public", "healthzHandler", "ContextHandler", "mwA", "route"}

\* cred: the basic-auth credentials of the request, compared with the configured
\* ones. db: what the database probe answers while the request is handled.
\* panicAt: the stage that panics while handling the request, "" for none.
PanicRequests ==
    {[method |-> "GET", path |-> "/api/dashboards", cred |-> "none", db |-> "ok",
      panicAt |-> p] : p \in PanicPoints}

Requests ==
    {r \in [method : Methods, path : Paths, cred : {"none", "wrong", "right"},
            db : {"ok", "failing"}, panicAt : {""}] :
        /\ r.path # "/metrics" => r.cred = "none"
        /\ r.path \notin {"/api/health", "/healthz"} => r.db = "ok"}
    \cup PanicRequests

Written(w) == w.status # 0

\* BasicAuthenticatedRequest(ctx.Req, username, password)
BasicAuthenticatedRequest(r) == r.cred = "right"

\* hs.databaseHealthy(ctx.Req.Context())
databaseHealthy(r) == r.db = "ok"

\* Basic auth counted as enabled when either the username or the password is set.
metricsEndpointBasicAuthEnabledEither(cfg) ==
    cfg.MetricsEndpointBasicAuthUsername # "" \/ cfg.MetricsEndpointBasicAuthPassword # ""

metricsEndpointBasicAuthEnabled(cfg) ==
    cfg.MetricsEndpointBasicAuthUsername # "" /\ cfg.MetricsEndpointBasicAuthPassword # ""

\* metricsEndpoint without the return behind the 401: the exposition is written
\* as well.
metricsEndpointNoReturn(cfg, r, w) ==
    IF ~cfg.MetricsEndpointEnabled THEN w
    ELSE IF r.method # "GET" \/ r.path # "/metrics" THEN w
    ELSE IF metricsEndpointBasicAuthEnabled(cfg) /\ ~BasicAuthenticatedRequest(r)
    THEN [w EXCEPT !.status = 401, !.body = "exposition"]
    ELSE [w EXCEPT !.status = 200, !.body = "exposition"]

metricsEndpoint(cfg, r, w) ==
    IF ~cfg.MetricsEndpointEnabled THEN w
    ELSE IF r.method # "GET" \/ r.path # "/metrics" THEN w
    ELSE IF metricsEndpointBasicAuthEnabled(cfg) /\ ~BasicAuthenticatedRequest(r)
    THEN [w EXCEPT !.status = 401]
    ELSE [w EXCEPT !.status = 200, !.body = "exposition"]

\* healthzHandler answering every method.
healthzHandlerAnyMethod(r, w) ==
    IF r.path # "/healthz" THEN w
    ELSE [w EXCEPT !.status = 200, !.body = "Ok"]

\* healthzHandler answering GET only.
healthzHandlerGetOnly(r, w) ==
    IF r.method # "GET" \/ r.path # "/healthz" THEN w
    ELSE [w EXCEPT !.status = 200, !.body = "Ok"]

\* healthzHandler answering by the database probe.
healthzHandlerProbesDb(r, w) ==
    LET notHeadOrGet == r.method # "GET" /\ r.method # "HEAD" IN
    IF notHeadOrGet \/ r.path # "/healthz" THEN w
    ELSE IF ~databaseHealthy(r) THEN [w EXCEPT !.status = 503, !.body = "Ok"]
    ELSE [w EXCEPT !.status = 200, !.body = "Ok"]

healthzHandler(r, w) ==
    LET notHeadOrGet == r.method # "GET" /\ r.method # "HEAD" IN
    IF notHeadOrGet \/ r.path # "/healthz" THEN w
    ELSE [w EXCEPT !.status = 200, !.body = "Ok"]

\* apiHealthHandler giving version and commit whatever the privacy toggle.
apiHealthHandlerAlwaysVersion(cfg, r, w) ==
    LET notHeadOrGet == r.method # "GET" /\ r.method # "HEAD"
        version == {<<"version", "BuildVersion">>, <<"commit", "BuildCommit">>}
    IN
    IF notHeadOrGet \/ r.path # "/api/health" THEN w
    ELSE IF ~databaseHealthy(r)
    THEN [w EXCEPT !.status = 503, !.body = "json",
                   !.json = {<<"database", "failing">>} \cup version]
    ELSE [w EXCEPT !.status = 200, !.body = "json",
                   !.json = {<<"database", "ok">>} \cup version]

apiHealthHandler(cfg, r, w) ==
    LET notHeadOrGet == r.method # "GET" /\ r.method # "HEAD"
        version == IF ~cfg.AnonymousHideVersion
                   THEN {<<"version", "BuildVersion">>, <<"commit", "BuildCommit">>}
                   ELSE {}
    IN
    IF notHeadOrGet \/ r.path # "/api/health" THEN w
    ELSE IF ~databaseHealthy(r)
    THEN [w EXCEPT !.status = 503, !.body = "json",
                   !.json = {<<"database", "failing">>} \cup version]
    ELSE [w EXCEPT !.status = 200, !.body = "json",
                   !.json = {<<"database", "ok">>} \cup version]

\* The Cache-Control header mapStatic gives the mapping of a prefix.
\* mapStatic with the test of the prefix behind the test of the environment.
mapStaticHeadersPrefixLast(cfg, prefix) ==
    IF prefix = "public/build" THEN "public, max-age=31536000"
    ELSE IF cfg.Env = "development" THEN "max-age=0, must-revalidate, no-cache"
    ELSE "public, max-age=3600"

mapStaticHeaders(cfg, prefix) ==
    IF cfg.Env = "development" THEN "max-age=0, must-revalidate, no-cache"
    ELSE IF prefix = "public/build" THEN "public, max-age=31536000"
    ELSE "public, max-age=3600"

\* The files below each static prefix.
StaticFiles ==
    [p \in {"public/build", "public", "robots.txt", "/public/img/attachments"} |->
        CASE p = "public/build" -> {"/public/build/app.js"}
          [] p = "public" -> {"/public/build/app.js", "/public/img/logo.png"}
          [] p = "robots.txt" -> {"/robots.txt"}
          [] OTHER -> {}]

\* httpstatic.Static: serves the file for GET and HEAD below its prefix.
staticHandler(cfg, prefix, r, w) ==
    IF r.method \in {"GET", "HEAD"} /\ r.path \in StaticFiles[prefix]
    THEN [w EXCEPT !.status = 200, !.body = "file",
                   !.cache = mapStaticHeaders(cfg, prefix)]
    ELSE w

StaticStages ==
    [s \in {"Static:public/build", "Static:public", "Static:robots.txt",
            "Static:/public/img/attachments"} |->
        CASE s = "Static:public/build" -> "public/build"
          [] s = "Static:public" -> "public"
          [] s = "Static:robots.txt" -> "robots.txt"
          [] OTHER -> "/public/img/attachments"]

\* One stage of the chain applied to a request. The stages of the middleware
\* package and the extra middleware pass the request on.
invoke(stage, cfg, r, w) ==
    CASE stage = "healthzHandler" -> healthzHandler(r, w)
      [] stage = "apiHealthHandler" -> apiHealthHandler(cfg, r, w)
      [] stage = "metricsEndpoint" -> metricsEndpoint(cfg, r, w)
      [] stage \in DOMAIN StaticStages -> staticHandler(cfg, StaticStages[stage], r, w)
      [] OTHER -> w

\* A panic unwinds through the stages entered so far. middleware.Recovery, when
\* it is one of them, answers 500; otherwise the panic leaves the chain and
\* net/http drops the connection without a response.
panicked(w, obs) ==
    IF \E k \in 1..Len(obs) : obs[k] = "Recovery"
    THEN [w EXCEPT !.status = 500, !.body = "Internal Server Error"]
    ELSE [w EXCEPT !.body = "connection aborted"]

\* web.Context.run: the handlers run in order until one has written the response;
\* behind the last handler stands the handler of the matched route.
RECURSIVE runChain(_, _, _, _, _, _)
runChain(hs, i, cfg, r, w, obs) ==
    IF Written(w)
    THEN [resp |-> w, observed |-> obs]
    ELSE IF i > Len(hs)
    THEN [resp |-> IF r.panicAt = "route" THEN panicked(w, obs) ELSE w,
          observed |-> obs]
    ELSE IF r.panicAt = hs[i]
    THEN [resp |-> panicked(w, Append(obs, hs[i])), observed |-> Append(obs, hs[i])]
    ELSE runChain(hs, i + 1, cfg, r, invoke(hs[i], cfg, r, w), Append(obs, hs[i]))

\* A request is handled by the composed chain.
ServeHTTP(r) ==
    /\ runPc \notin {"unstarted", "composing"}
    /\ req = NoReq
    /\ LET out == runChain(handlers, 1, Cfg, r, NoResp, <<>>) IN
         /\ req' = r
         /\ resp' = out.resp
         /\ observed' = out.observed
    /\ UNCHANGED <<Cfg, Listener, middlewares, handlers, composeVars, runPc, lifecycleVars>>

\* The response is sent and the request is over.
Respond ==
    /\ req # NoReq
    /\ req' = NoReq
    /\ resp' = NoResp
    /\ observed' = <<>>
    /\ UNCHANGED <<Cfg, Listener, middlewares, handlers, composeVars, runPc, lifecycleVars>>

\* The handler of the request on connection c panics in one of the stages of
\* the chain or in the route handler. The panic unwinds to middleware.Recovery
\* or, failing that, to net/http's connection goroutine; either way the
\* connection's request is over. resp keeps the response that request got.
Panic(c) ==
    /\ conns[c] = "active"
    /\ conns' = [conns EXCEPT ![c] = "idle"]
    /\ UNCHANGED <<Cfg, Listener, middlewares, handlers, composeVars, runPc, ctxDone, cancelCalls,
                   runResult, listener, httpSrv, watcher, shutdownCalls, bound, lnOpen,
                   closeCalls, chmodCalls, socketMode, servedOn, serveCall, serveErr, returns, req, observed>>
    /\ \E r \in PanicRequests :
          /\ r.panicAt = "route" \/ \E i \in 1..Len(handlers) : handlers[i] = r.panicAt
          /\ resp' = runChain(handlers, 1, Cfg, r, NoResp, <<>>).resp

\* In the lifecycle one extra middleware may have been registered before Run.
Next ==
    \/ (runPc = "unstarted" /\ Len(middlewares) = 0 /\ AddMiddleware("mwA"))
    \/ RunStart
    \/ RunCompose
    \/ RunConfigure
    \/ RunGetListener
    \/ RunStartWatcher
    \/ RunServe
    \/ RunServeTLSLoadFails
    \/ RunPanic
    \/ ServeAcceptError
    \/ ServeClosed
    \/ \E c \in 1..MaxConns : Accept(c)
    \/ \E c \in 1..MaxConns : Finish(c)
    \/ \E c \in 1..MaxConns : Panic(c)
    \/ Cancel
    \/ WatcherShutdown
    \/ WatcherDone

Spec == Init /\ [][Next]_vars

\* The Go scheduler runs every runnable goroutine: Run, the watcher and the
\* handlers of the requests that do complete. Cancellation, arriving
\* connections and accept errors come from outside and are not forced.
RunStep ==
    \/ RunStart
    \/ RunCompose
    \/ RunConfigure
    \/ RunGetListener
    \/ RunStartWatcher
    \/ RunServe
    \/ RunPanic
    \/ ServeClosed

Fairness ==
    /\ WF_vars(RunStep)
    /\ WF_vars(WatcherShutdown)
    /\ WF_vars(WatcherDone)
    /\ \A c \in 1..MaxConns : WF_vars(Finish(c))

FairSpec == Init /\ [][Next]_vars /\ Fairness

PipeInit ==
    \E p \in PipelineCfgs :
        ProvideHTTPServer(
            MkCfg([Protocol |-> HTTPScheme, CertFile |-> "", KeyFile |-> ""], p), Nil)

\* Every handler passed to AddMiddleware is a different one.
PipeNext ==
    \/ \E mw \in ExtraMiddlewares \ {middlewares[i] : i \in 1..Len(middlewares)} :
          AddMiddleware(mw)
    \/ RunStart
    \/ RunCompose
    \/ \E r \in Requests : ServeHTTP(r)
    \/ Respond

PipeSpec == PipeInit /\ [][PipeNext]_vars

(***************************************************************************)
(* Properties of the lifecycle                                             *)
(***************************************************************************)
InFlight == {c \in 1..MaxConns : conns[c] # "idle"}
BadCertOrKey == IsNotExist(Cfg.CertFile) \/ IsNotExist(Cfg.KeyFile)
EmptyCertOrKey == Cfg.CertFile = "" \/ Cfg.KeyFile = ""
PastConfigure == runPc \notin {"unstarted", "composing", "configure"}
NoListenerAcquired == listener = Nil /\ bound = {} /\ chmodCalls = 0 /\ servedOn = Nil

\* C1: whenever Run has returned after starting the shutdown watcher, the
\* watcher goroutine has already terminated.
C1_RunReturnsAfterWatcher ==
    (runPc = "returned" /\ watcher # "none") => watcher = "done"

\* C2: Run returns nil exactly when Serve / ServeTLS ended with ErrServerClosed,
\* which only a Shutdown issued after the cancellation of the context produces;
\* for every other error of the serve path Run returns that (non-nil) error.
C2_NilIffServerClosed ==
    runPc = "returned" =>
        /\ (runResult = Nil) <=> (serveErr = "ErrServerClosed")
        /\ serveErr \notin {"none", "ErrServerClosed"} => runResult = serveErr
        /\ serveErr = "ErrServerClosed" =>
              ctxDone /\ shutdownCalls = 1 /\ httpSrv.inShutdown

C2_Witness ==
    /\ runPc = "returned"
    /\ serveErr = "ErrServerClosed"
    /\ runResult = Nil
    /\ ctxDone

\* C3: once shutdown is initiated no new connection is accepted, and Run has not
\* returned from a shut-down serve path while a request is still in flight (the
\* code gives Shutdown no grace period that could end).
C3_CooperativeShutdown ==
    /\ httpSrv.inShutdown => \A c \in 1..MaxConns : ~ENABLED Accept(c)
    /\ (runPc = "returned" /\ serveErr = "ErrServerClosed") => InFlight = {}

C5_ShutdownIdempotent ==
    /\ shutdownCalls <= 1
    /\ closeCalls <= 1
    /\ returns <= 1
    /\ runPc = "panicked" => Cfg.Protocol \notin RecognisedSchemes
    /\ (ctxDone /\ runPc \in {"serve", "serving"}) =>
          ENABLED (RunServe \/ RunPanic \/ ServeClosed \/ WatcherShutdown)

C5_Witness ==
    /\ cancelCalls >= 2
    /\ shutdownCalls = 1
    /\ closeCalls = 1
    /\ returns = 1
    /\ watcher = "done"

\* C6 as stated: in every transport mode an empty or nonexistent certificate or
\* key path makes Run fail before any listener is acquired.
C6_AllModesRejectBadCert ==
    BadCertOrKey =>
        /\ NoListenerAcquired
        /\ runPc \in {"unstarted", "composing", "configure", "returned"}
        /\ runPc = "returned" => runResult # Nil

\* C6 as amended: in HTTPS and HTTP2 mode an empty or nonexistent certificate or
\* key path makes Run fail before any listener is acquired.
C6_TLSModesRejectBadCert ==
    (Cfg.Protocol \in TLSSchemes /\ BadCertOrKey) =>
        /\ NoListenerAcquired
        /\ runPc \in {"unstarted", "composing", "configure", "returned"}
        /\ runPc = "returned" => runResult # Nil

C6_Witness ==
    /\ Cfg.Protocol = HTTP2Scheme
    /\ Cfg.CertFile = "cert.pem"
    /\ Cfg.KeyFile = "absent.key"
    /\ runPc = "returned"
    /\ runResult # Nil
    /\ bound = {}

\* C7: in HTTPS and HTTP2 mode Run returns a configuration error when the
\* certificate or key path is empty, a file-not-found error when both are set
\* and one does not exist, and in both cases getListener has not been called.
C7_ErrorKindBeforeListener ==
    (Cfg.Protocol \in TLSSchemes /\ PastConfigure) =>
        /\ EmptyCertOrKey =>
              /\ runPc = "returned"
              /\ runResult \in ConfigurationErrors
              /\ NoListenerAcquired
        /\ (~EmptyCertOrKey /\ BadCertOrKey) =>
              /\ runPc = "returned"
              /\ runResult \in FileNotFoundErrors
              /\ NoListenerAcquired

C7_Witness ==
    /\ Cfg.Protocol = HTTPSScheme
    /\ Cfg.CertFile = "absent.pem"
    /\ Cfg.KeyFile = "key.pem"
    /\ Listener # Nil
    /\ runPc = "returned"
    /\ runResult = "cannot find SSL cert_file"

\* C8: with an unrecognised protocol, with or without a supplied listener, Run
\* fails with an error at startup: the watcher is never started and the serve
\* step is never reached.
C8_UnknownModeNeverStarts ==
    Cfg.Protocol \notin RecognisedSchemes =>
        /\ watcher = "none"
        /\ runPc \notin {"serve", "serving", "panicked"}
        /\ servedOn = Nil
        /\ InFlight = {}
        /\ PastConfigure /\ runPc # "getListener" =>
              runPc = "returned" /\ runResult # Nil

\* C9: with a listener supplied through ServerOptions, Run binds no socket,
\* calls no Chmod, and serves on that listener and no other.
C9_SuppliedListenerOnly ==
    Listener # Nil =>
        /\ bound = {}
        /\ chmodCalls = 0
        /\ listener \in {Nil, Listener}
        /\ servedOn \in {Nil, Listener}
        /\ runPc = "serving" => servedOn = Listener

C9_Witness ==
    /\ Listener # Nil
    /\ Cfg.Protocol = SocketScheme
    /\ runPc = "serving"
    /\ servedOn = Listener
    /\ InFlight # {}

(***************************************************************************)
(* Properties of the chain                                                 *)
(***************************************************************************)
AuthStages ==
    {"ContextHandler", "OrgRedirect", "LoadPermissionsMiddleware", "ValidateHostHeader"}
        \cup ExtraMiddlewares
LivenessPaths == {"/healthz", "/api/health", "/metrics"}
ObservedBy == {observed[i] : i \in 1..Len(observed)}

\* The requests a liveness interceptor answers.
LivenessMatch ==
    \/ req.path \in {"/healthz", "/api/health"} /\ req.method \in {"GET", "HEAD"}
    \/ req.path = "/metrics" /\ req.method = "GET" /\ Cfg.MetricsEndpointEnabled

\* C10 as stated: no request to /healthz, /api/health or /metrics, whatever its
\* method and the configuration, is observed by an authentication stage.
C10_LivenessNeverReachesAuth ==
    req.path \in LivenessPaths => ObservedBy \cap AuthStages = {}

\* C10 as amended: a request to /healthz or /api/health with GET or HEAD, or to
\* /metrics with GET while the metrics endpoint is enabled, is observed by no
\* authentication stage; a request to one of these paths with another method, or
\* to /metrics while the endpoint is disabled, is passed on to them.
C10_MatchedLivenessNeverReachesAuth ==
    req.path \in LivenessPaths =>
        /\ LivenessMatch => (ObservedBy \cap AuthStages = {} /\ Written(resp))
        /\ ~LivenessMatch => "ContextHandler" \in ObservedBy

C10_Witness ==
    /\ req.path = "/api/health"
    /\ req.method = "HEAD"
    /\ req.db = "failing"
    /\ Len(middlewares) = 2
    /\ Len(handlers) > 17
    /\ observed[Len(observed)] = "apiHealthHandler"
    /\ resp.status = 503

LivenessStages == {"healthzHandler", "apiHealthHandler", "metricsEndpoint"}
Stages == {handlers[i] : i \in 1..Len(handlers)}
Composed == runPc \notin {"unstarted", "composing"}

\* C11: in the composed chain each of the three liveness interceptors occurs
\* once and before the context handler, the organization redirect, the
\* permission loading and every extra middleware, whatever the configuration and
\* the AddMiddleware calls made before Run.
C11_LivenessBeforeAuth ==
    Composed =>
        /\ \A l \in LivenessStages :
              Cardinality({i \in 1..Len(handlers) : handlers[i] = l}) = 1
        /\ \A i, j \in 1..Len(handlers) :
              (handlers[i] \in LivenessStages /\ handlers[j] \in AuthStages) => i < j
        /\ {"ContextHandler", "OrgRedirect", "LoadPermissionsMiddleware"} \subseteq Stages
        /\ \A k \in 1..Len(mwAtRun) : mwAtRun[k] \in Stages

C11_Witness ==
    /\ Composed
    /\ Len(mwAtRun) = 2
    /\ mwAtRun[1] # mwAtRun[2]
    /\ Cfg.EnforceDomain
    /\ "ValidateHostHeader" \in Stages
    /\ ExtraMiddlewares \subseteq Stages

HeadOrGet == req.method \in {"GET", "HEAD"}
LastObserved == IF observed = <<>> THEN "" ELSE observed[Len(observed)]
JsonFields == {f[1] : f \in resp.json}

\* C12: every GET or HEAD request to /healthz is answered 200 with body Ok by
\* the healthz interceptor, whatever the credentials, the answer of the database
\* probe (no stage that probes the database runs) and the extra middleware.
C12_HealthzAlwaysOk ==
    (req # NoReq /\ HeadOrGet /\ req.path = "/healthz") =>
        /\ resp.status = 200
        /\ resp.body = "Ok"
        /\ LastObserved = "healthzHandler"
        /\ \A k \in 1..Len(observed) : observed[k] # "apiHealthHandler"

C12_Witness ==
    /\ req # NoReq
    /\ req.method = "HEAD"
    /\ req.path = "/healthz"
    /\ req.db = "failing"
    /\ Len(mwAtRun) = 2
    /\ resp.status = 200

\* C13: for every GET or HEAD request to /api/health the status is 200 and the
\* database field "ok" exactly when the probe succeeds, the status is 503 and
\* the database field "failing" exactly when it fails, and the version and
\* commit fields are present exactly when AnonymousHideVersion is off.
C13_ApiHealthFollowsProbe ==
    (req # NoReq /\ HeadOrGet /\ req.path = "/api/health") =>
        /\ (resp.status = 200 /\ <<"database", "ok">> \in resp.json) <=> req.db = "ok"
        /\ (resp.status = 503 /\ <<"database", "failing">> \in resp.json) <=> req.db # "ok"
        /\ resp.status \in {200, 503}
        /\ Cardinality({f \in resp.json : f[1] = "database"}) = 1
        /\ ("version" \in JsonFields) <=> ~Cfg.AnonymousHideVersion
        /\ ("commit" \in JsonFields) <=> ~Cfg.AnonymousHideVersion

C13_Witness ==
    /\ req # NoReq
    /\ req.method = "GET"
    /\ req.path = "/api/health"
    /\ req.db = "failing"
    /\ Cfg.AnonymousHideVersion
    /\ resp.status = 503
    /\ resp.json = {<<"database", "failing">>}

BasicAuthConfigured ==
    Cfg.MetricsEndpointBasicAuthUsername # "" /\ Cfg.MetricsEndpointBasicAuthPassword # ""

\* C14: for a GET request to /metrics with the metrics endpoint enabled, wrong
\* or missing credentials under configured basic-auth get 401 with an empty body
\* and no exposition; correct credentials, or no configured basic-auth, get the
\* exposition.
C14_MetricsBasicAuth ==
    (req # NoReq /\ req.method = "GET" /\ req.path = "/metrics" /\ Cfg.MetricsEndpointEnabled) =>
        /\ LastObserved = "metricsEndpoint"
        /\ IF BasicAuthConfigured /\ req.cred # "right"
           THEN resp.status = 401 /\ resp.body = "" /\ resp.json = {}
           ELSE resp.status = 200 /\ resp.body = "exposition"

C14_Witness ==
    /\ req # NoReq
    /\ req.method = "GET"
    /\ req.path = "/metrics"
    /\ Cfg.MetricsEndpointEnabled
    /\ BasicAuthConfigured
    /\ req.cred = "wrong"
    /\ resp.status = 401

ReferenceOrder ==
    <<"RequestTracing", "Logger", "Gziper", "Recovery",
      "Static:public/build", "Static:public", "Static:robots.txt",
      "Static:/public/img/attachments",
      "AddDefaultResponseHeaders", "Renderer",
      "healthzHandler", "apiHealthHandler", "metricsEndpoint",
      "ContextHandler", "OrgRedirect", "LoadPermissionsMiddleware",
      "ValidateHostHeader", "HandleNoCacheHeader", "AddCSPHeader">>
ReferencePresent(stage) ==
    CASE stage = "Gziper" -> Cfg.EnableGzip
      [] stage = "Static:/public/img/attachments" -> Cfg.ImageUploadProvider = "local"
      [] stage = "ValidateHostHeader" -> Cfg.EnforceDomain
      [] OTHER -> TRUE
ReferenceChain == SelectSeq(ReferenceOrder, ReferencePresent) \o mwAtRun

\* C15: for every configuration and every list of extra middleware registered
\* before Run (none added while Run composes), the chain Run composes equals the
\* reference sequence: the fixed stages in the reference order, the conditional
\* ones present exactly under their setting, then the extra middleware in the
\* order of registration.
C15_ChainEqualsReference ==
    [][(runPc = "composing" /\ runPc' # "composing" /\ middlewares = mwAtRun)
          => handlers' = ReferenceChain]_vars

C15_Witness ==
    /\ Composed
    /\ Cfg.EnableGzip /\ Cfg.ImageUploadProvider = "local" /\ Cfg.EnforceDomain
    /\ mwAtRun = <<"mwB", "mwA">>
    /\ Len(handlers) = 21
    /\ handlers = ReferenceChain

IsExtra(h) == h \in ExtraMiddlewares

\* C16: once Run has begun composing, the chain is fixed: the extra middleware
\* in the chain requests traverse is the list registered before Run started,
\* whatever AddMiddleware calls are made afterwards.
C16_ChainFixedOnceComposing ==
    Composed => SelectSeq(handlers, IsExtra) = mwAtRun

ExpectedRouteOrder ==
    <<"addMiddlewaresAndStaticRoutes", "RouteRegister.Register(namedMiddlewares)",
      "initAppPluginRoutes", "NotFound(ReqSignedIn, NotFoundHandler)">>

\* C17: every Run composes the dispatch table in one order: the middleware and
\* static mappings first, then the registered routes with the named middleware,
\* then the plugin and app-proxy routes, and the not-found handler guarded by
\* ReqSignedIn last; nothing is registered before the middleware stage.
C17_FixedRouteOrder ==
    /\ runPc = "unstarted" => applied = <<>>
    /\ \A k \in 1..Len(applied) : applied[k] = ExpectedRouteOrder[k]
    /\ Len(applied) <= Len(ExpectedRouteOrder)
    /\ Len(applied) > 1 => Len(handlers) >= 16
    /\ Composed => applied = ExpectedRouteOrder
    /\ runPc = "composing" => applied = <<"addMiddlewaresAndStaticRoutes">>

C17_Witness ==
    /\ runPc = "serving"
    /\ applied = ExpectedRouteOrder
    /\ applied[4] = "NotFound(ReqSignedIn, NotFoundHandler)"

\* C18: a panic in a stage behind the recovery stage, or in the route handler,
\* gives that request a 5xx response and nothing else changes: Run is where it
\* was (serving, not returned), the listener stays open and the other
\* connections keep their requests.
C18_PanicRecovered ==
    [][\A c \in 1..MaxConns :
          Panic(c) =>
              /\ resp'.status \in 500..599
              /\ runPc' = runPc
              /\ runResult' = runResult
              /\ returns' = returns
              /\ lnOpen' = lnOpen
              /\ httpSrv' = httpSrv
              /\ \A d \in 1..MaxConns \ {c} : conns'[d] = conns[d]]_vars

C18_Witness ==
    /\ resp.status = 500
    /\ runPc = "serving"
    /\ runResult = "none"
    /\ lnOpen
    /\ \E i \in 1..Len(handlers) : handlers[i] = "mwA"
    /\ \E d \in 1..MaxConns : conns[d] = "active"
    /\ \E c \in 1..MaxConns : conns[c] = "idle"

SocketNoListener == Cfg.Protocol = SocketScheme /\ Listener = Nil

\* C19: in socket mode without a supplied listener the socket file is made
\* group-writable after it was created, before the listener is handed on; when
\* the permission change fails Run returns the listener error, starts no watcher
\* and never serves.
C19_SocketGroupWritable ==
    SocketNoListener =>
        /\ chmodCalls \in {0, 1}
        /\ chmodCalls = 1 => "unix" \in bound
        /\ listener # Nil => (listener = "unix" /\ chmodCalls = 1 /\ GroupWritable(socketMode))
        /\ servedOn # Nil => GroupWritable(socketMode)
        /\ GroupWritable(socketMode) => socketMode = SocketPerm
        /\ (chmodCalls = 1 /\ ~GroupWritable(socketMode)) =>
              /\ runPc = "returned"
              /\ runResult = "failed to change socket permissions"
              /\ runResult \in ListenerErrors
              /\ listener = Nil
              /\ watcher = "none"
              /\ servedOn = Nil
              /\ serveCall = NoServeCall
              /\ \A c \in 1..MaxConns : conns[c] = "idle"

C19_Witness ==
    /\ SocketNoListener
    /\ "unix" \in bound
    /\ chmodCalls = 1
    /\ ~GroupWritable(socketMode)
    /\ runPc = "returned"
    /\ runResult = "failed to change socket permissions"

\* C20: http and socket modes call Serve and the server has no TLS
\* configuration; https and h2 modes call ServeTLS with the configured
\* certificate and key files on a server whose TLS configuration was installed
\* before.
C20_ServePathByMode ==
    /\ Cfg.Protocol \in {HTTPScheme, SocketScheme} => httpSrv.TLSConfig = Nil
    /\ runPc = "serving" => serveCall # NoServeCall
    /\ serveCall # NoServeCall =>
          /\ Cfg.Protocol \in {HTTPScheme, SocketScheme} =>
                serveCall = [fn |-> "Serve", certFile |-> "", keyFile |-> ""]
          /\ Cfg.Protocol \in {HTTPSScheme, HTTP2Scheme} =>
                /\ serveCall = [fn |-> "ServeTLS", certFile |-> Cfg.CertFile,
                                keyFile |-> Cfg.KeyFile]
                /\ httpSrv.TLSConfig # Nil
          /\ Cfg.Protocol = HTTPSScheme => httpSrv.TLSConfig = "TLS12"
          /\ Cfg.Protocol = HTTP2Scheme => httpSrv.TLSConfig = "TLS12+h2,http/1.1"
          /\ Cfg.Protocol \in RecognisedSchemes
          /\ servedOn = listener

C20_Witness ==
    /\ Cfg.Protocol = HTTP2Scheme
    /\ runPc = "serving"
    /\ serveCall.fn = "ServeTLS"
    /\ serveCall.certFile = "cert.pem"
    /\ serveCall.keyFile = "key.pem"
    /\ httpSrv.TLSConfig # Nil

\* C21: a file served by the mapping of prefix public/build carries the
\* one-year Cache-Control header outside the development environment and the
\* no-cache header in it; a file served by any other static mapping carries the
\* one-hour header outside development and the no-cache header in it.
C21_StaticCacheHeaders ==
    /\ (req # NoReq /\ resp.body = "file") =>
          /\ LastObserved \in DOMAIN StaticStages
          /\ resp.cache =
                IF Cfg.Env = "development" THEN "max-age=0, must-revalidate, no-cache"
                ELSE IF LastObserved = "Static:public/build" THEN "public, max-age=31536000"
                ELSE "public, max-age=3600"
    /\ (req # NoReq /\ HeadOrGet /\ req.path = "/public/build/app.js") =>
          (LastObserved = "Static:public/build" /\ resp.body = "file")
    /\ (req # NoReq /\ HeadOrGet /\ req.path \in {"/public/img/logo.png", "/robots.txt"}) =>
          (LastObserved \in {"Static:public", "Static:robots.txt"} /\ resp.body = "file")

C21_Witness ==
    /\ req # NoReq
    /\ req.path = "/public/build/app.js"
    /\ Cfg.Env = "development"
    /\ LastObserved = "Static:public/build"
    /\ resp.cache = "max-age=0, must-revalidate, no-cache"

\* The lifecycle state of the server as Run's position and the server's
\* shutdown flag give it.
LifecycleOf(pc, srv) ==
    CASE pc = "unstarted" -> "Unstarted"
      [] pc \in {"returned", "panicked"} -> "Stopped"
      [] srv.inShutdown -> "ShuttingDown"
      [] pc = "serving" -> "Listening"
      [] OTHER -> "Configuring"
LifecycleRank(s) ==
    CASE s = "Unstarted" -> 0
      [] s = "Configuring" -> 1
      [] s = "Listening" -> 2
      [] s = "ShuttingDown" -> 3
      [] OTHER -> 4
LifecycleState == LifecycleOf(runPc, httpSrv)
EntersLifecycle(s) == LifecycleOf(runPc', httpSrv') = s /\ LifecycleState # s

\* What every lifecycle step obeys, as stated and as amended.
LifecycleForward ==
    /\ LifecycleRank(LifecycleOf(runPc', httpSrv')) >= LifecycleRank(LifecycleState)
    /\ EntersLifecycle("Configuring") => LifecycleState = "Unstarted"
    /\ EntersLifecycle("Listening") =>
          /\ LifecycleState = "Configuring"
          /\ listener' # Nil
          /\ lnOpen'
          /\ Cfg.Protocol \in TLSSchemes =>
                (~BadCertOrKey /\ ~EmptyCertOrKey /\ httpSrv'.TLSConfig # Nil)
    /\ EntersLifecycle("ShuttingDown") => ctxDone
    /\ LifecycleState = "Stopped" => LifecycleOf(runPc', httpSrv') = "Stopped"

\* C22 as stated: the lifecycle only moves forward along Unstarted, Configuring,
\* Listening, ShuttingDown, Stopped; Listening is entered only with the
\* transport configured and a listener acquired, ShuttingDown only from
\* Listening and only with the context cancelled, and Stopped is terminal.
C22_ShuttingDownOnlyFromListening ==
    [][/\ LifecycleForward
       /\ EntersLifecycle("ShuttingDown") => LifecycleState = "Listening"]_vars

\* C22 amended: as above, but ShuttingDown is entered from Listening or, when
\* the context is cancelled between the start of the watcher and the serve
\* call, from Configuring with the listener acquired and the watcher started.
C22_LifecycleForward ==
    [][/\ LifecycleForward
       /\ EntersLifecycle("ShuttingDown") =>
             \/ LifecycleState = "Listening"
             \/ (LifecycleState = "Configuring" /\ runPc = "serve" /\ listener # Nil)]_vars

C22_Witness ==
    /\ LifecycleState = "ShuttingDown"
    /\ runPc = "serve"
    /\ serveCall = NoServeCall
    /\ ctxDone
    /\ shutdownCalls = 1

\* C23: the panic branch of the serve switch is never taken: under every
\* configuration, with or without a supplied listener, an unrecognised protocol
\* makes Run return an error before it reaches the serve switch.
C23_PanicBranchUnreachable ==
    /\ runPc # "panicked"
    /\ ~ENABLED RunPanic
    /\ Cfg.Protocol \notin RecognisedSchemes =>
          /\ runPc \notin {"startWatcher", "serve", "serving"}
          /\ runPc = "returned" => runResult \notin {"none", Nil}

InterceptorMatches(stage) ==
    CASE stage = "healthzHandler" -> HeadOrGet /\ req.path = "/healthz"
      [] stage = "apiHealthHandler" -> HeadOrGet /\ req.path = "/api/health"
      [] stage = "metricsEndpoint" ->
           Cfg.MetricsEndpointEnabled /\ req.method = "GET" /\ req.path = "/metrics"
      [] OTHER -> FALSE

\* C24: a liveness interceptor that a request reaches and does not match
\* (healthz, api health: other method than GET/HEAD or other path; metrics:
\* disabled, method not GET or path not /metrics) leaves the response unwritten
\* and the next stage of the chain runs; one that matches writes the response
\* and no later stage runs.
C24_InterceptorPassthrough ==
    req # NoReq =>
        \A k \in 1..Len(observed) :
            (observed[k] \in LivenessStages /\ req.panicAt # observed[k]) =>
                IF InterceptorMatches(observed[k])
                THEN k = Len(observed) /\ Written(resp)
                ELSE /\ k < Len(observed)
                     /\ observed[k + 1] = handlers[k + 1]
                     /\ invoke(observed[k], Cfg, req, NoResp) = NoResp

C24_Witness ==
    /\ req # NoReq
    /\ req.method = "GET"
    /\ req.path = "/metrics"
    /\ ~Cfg.MetricsEndpointEnabled
    /\ \E k \in 1..Len(observed) : observed[k] = "metricsEndpoint"
    /\ Len(observed) = Len(handlers)
    /\ ~Written(resp)

\* Run returned an error before it reached the serve switch.
StartupFailed == runPc = "returned" /\ serveCall = NoServeCall /\ runResult \notin {"none", Nil}

\* C25: after a startup failure of Run (transport configuration error, invalid
\* protocol, bind failure, socket permission failure) no listener that Run
\* opened is still open and no shutdown watcher was started.
C25_NoLeakAfterStartupFailure ==
    StartupFailed =>
        /\ watcher = "none"
        /\ shutdownCalls = 0
        /\ ~(bound # {} /\ lnOpen)

Terminated == runPc \in {"returned", "panicked"}
\* Run leaves the serve switch with the server already shut down.
ServeStepAfterShutdown == runPc = "serve" /\ httpSrv.inShutdown /\ runPc' # "serve"

\* C26 as stated: when the shutdown has run before the serve call begins, Run
\* returns nil from the serve call without serving.
C26_ShutdownBeforeServeReturnsNil ==
    [][ServeStepAfterShutdown =>
          (runPc' = "returned" /\ runResult' = Nil /\ conns' = conns)]_vars

\* C26 amended: with the context cancelled Run always terminates, and when the
\* shutdown has run before the serve call begins Run leaves the serve switch at
\* once without accepting a connection: it returns nil, or the key-pair error
\* of ServeTLS in a TLS mode, or it panics in the default branch for an
\* unrecognised protocol with a supplied listener.
C26_ShutdownBeforeServeTerminates ==
    /\ [][ServeStepAfterShutdown =>
            /\ Terminated'
            /\ conns' = conns
            /\ \A c \in 1..MaxConns : conns[c] = "idle"
            /\ runPc' = "returned" =>
                  \/ runResult' = Nil /\ serveErr' = "ErrServerClosed"
                  \/ /\ runResult' = "tls: failed to load key pair"
                     /\ Cfg.Protocol \in TLSSchemes
            /\ runPc' = "panicked" =>
                  (Cfg.Protocol \notin RecognisedSchemes /\ Listener # Nil)]_vars
    /\ ctxDone ~> Terminated

C26_Witness ==
    /\ runPc = "serve"
    /\ httpSrv.inShutdown
    /\ watcher = "done"
    /\ cancelCalls = 1
    /\ Cfg.Protocol = HTTPScheme
    /\ listener # Nil

ShutdownRequested ==
    shutdownCalls' # shutdownCalls \/ httpSrv'.inShutdown # httpSrv.inShutdown

\* C27: Shutdown is called only by the watcher goroutine, on its step out of
\* <-ctx.Done(), and only with the context cancelled; a step in which Serve or
\* ServeTLS returns an error calls no Shutdown.
C27_ShutdownOnlyByWatcher ==
    [][/\ ShutdownRequested =>
             /\ ctxDone
             /\ watcher = "waiting"
             /\ watcher' = "shutdown"
             /\ shutdownCalls' = shutdownCalls + 1
             /\ httpSrv'.inShutdown
             /\ runPc' = runPc
       /\ (serveErr' # serveErr \/ runPc' # runPc) => ~ShutdownRequested]_vars

C27_Witness ==
    /\ runPc = "returned"
    /\ serveErr = "accept error"
    /\ ctxDone
    /\ watcher = "shutdown"
    /\ shutdownCalls = 1
    /\ httpSrv.inShutdown

EitherCredentialEmpty ==
    Cfg.MetricsEndpointBasicAuthUsername = "" \/ Cfg.MetricsEndpointBasicAuthPassword = ""

\* C28: with the configured username or the configured password empty, every
\* GET /metrics request with metrics enabled gets the exposition whatever
\* credentials it carries; a 401 is given only with both non-empty.
C28_BasicAuthNeedsBoth ==
    (req # NoReq /\ req.method = "GET" /\ req.path = "/metrics" /\ Cfg.MetricsEndpointEnabled) =>
        /\ EitherCredentialEmpty => (resp.status = 200 /\ resp.body = "exposition")
        /\ resp.status = 401 => ~EitherCredentialEmpty

C28_Witness ==
    /\ req # NoReq
    /\ req.method = "GET"
    /\ req.path = "/metrics"
    /\ Cfg.MetricsEndpointEnabled
    /\ Cfg.MetricsEndpointBasicAuthUsername = "admin"
    /\ Cfg.MetricsEndpointBasicAuthPassword = ""
    /\ req.cred = "wrong"
    /\ resp.body = "exposition"

====
